---- MODULE Spec2Model ----
(***************************************************************************)
(* A model of digikey/models.py: the key-casing transforms, the validation *)
(* entry points of BaseModel over the Sort and ParametricFilters schemas,  *)
(* the KeywordSearchResult aggregate and the response value objects.       *)
(*                                                                         *)
(* Python values are tagged records: [t |-> "none"], [t |-> "int", v],     *)
(* [t |-> "int", n], [t |-> "str", s], [t |-> "list", l |-> <<...>>] and     *)
(* [t |-> "dict", d |-> <<[k, v], ...>>] (items in insertion order, keys   *)
(* unique).  Keys that go through the casing transforms are sequences of   *)
(* one-character strings, so that the transforms work on characters.       *)
(***************************************************************************)
EXTENDS Integers, Sequences, FiniteSets, TLC

VARIABLES
    orig, val, ops,              \* key-casing: the input, the current value, the transforms applied
    call, outcome,               \* validation: the entry point called with its argument, what it did
    part, acc, result,           \* value objects: the raw mapping, the accessor read, what it did
    raw, items, ksr, views, nextId  \* result aggregate: caller's response, item heap, the object, products reads

vars == <<orig, val, ops, call, outcome, part, acc, result, raw, items, ksr, views, nextId>>

Idle == [t |-> "idle"]

-----------------------------------------------------------------------------
(* Python values *)

PyNone == [t |-> "none"]
PyInt(n) == [t |-> "int", n |-> n]
PyStr(s) == [t |-> "str", s |-> s]
PyBool(b) == [t |-> "bool", b |-> b]
PyList(s) == [t |-> "list", l |-> s]
PyDict(s) == [t |-> "dict", d |-> s]

Item(k, v) == [k |-> k, v |-> v]

DictKeys(d) == {d.d[i].k : i \in 1..Len(d.d)}

DictHas(d, k) == \E i \in 1..Len(d.d) : d.d[i].k = k

DictIndex(d, k) == CHOOSE i \in 1..Len(d.d) : d.d[i].k = k

\* d[k], for a key that is present
DictAt(d, k) == d.d[DictIndex(d, k)].v

\* d.get(k, default)
DictGet(d, k, default) == IF DictHas(d, k) THEN DictAt(d, k) ELSE default

\* d[k] = v: an existing key keeps its place, a new one goes last
DictPut(d, k, v) ==
    IF DictHas(d, k)
    THEN PyDict([d.d EXCEPT ![DictIndex(d, k)] = Item(k, v)])
    ELSE PyDict(Append(d.d, Item(k, v)))

\* {k: v for k, v in pairs}: built by insertion, a later equal key overwrites
RECURSIVE DictFromPairs(_, _)
DictFromPairs(pairs, acc0) ==
    IF pairs = <<>> THEN acc0
    ELSE DictFromPairs(Tail(pairs), DictPut(acc0, Head(pairs).k, Head(pairs).v))

\* Python's ==: dicts compare as mappings (order-free), lists element-wise
RECURSIVE PyEq(_, _)
PyEq(a, b) ==
    IF a.t # b.t THEN FALSE
    ELSE IF a.t = "dict"
    THEN /\ DictKeys(a) = DictKeys(b)
         /\ \A k \in DictKeys(a) : PyEq(DictAt(a, k), DictAt(b, k))
    ELSE IF a.t = "list"
    THEN /\ Len(a.l) = Len(b.l)
         /\ \A i \in 1..Len(a.l) : PyEq(a.l[i], b.l[i])
    ELSE a = b

-----------------------------------------------------------------------------
(* inflection.camelize and inflection.underscore, on character sequences *)

UpperChars == <<"A","B","C","D","E","F","G","H","I","J","K","L","M",
                "N","O","P","Q","R","S","T","U","V","W","X","Y","Z">>
LowerChars == <<"a","b","c","d","e","f","g","h","i","j","k","l","m",
                "n","o","p","q","r","s","t","u","v","w","x","y","z">>
Upper == {UpperChars[i] : i \in 1..Len(UpperChars)}
Lower == {LowerChars[i] : i \in 1..Len(LowerChars)}
Digit == {"0","1","2","3","4","5","6","7","8","9"}

\* str.upper() and str.lower() of one character
ToUpper(c) ==
    IF c \in Lower THEN UpperChars[CHOOSE i \in 1..Len(LowerChars) : LowerChars[i] = c] ELSE c
ToLower(c) ==
    IF c \in Upper THEN LowerChars[CHOOSE i \in 1..Len(UpperChars) : UpperChars[i] = c] ELSE c

\* re.sub(r"(?:^|_)(.)", upper of group 1), from position i > 1 on: an
\* underscore that has a character after it is dropped and that character
\* upper-cased
RECURSIVE CamelizeFrom(_, _)
CamelizeFrom(s, i) ==
    IF i > Len(s) THEN <<>>
    ELSE IF s[i] = "_" /\ i < Len(s)
    THEN <<ToUpper(s[i + 1])>> \o CamelizeFrom(s, i + 2)
    ELSE <<s[i]>> \o CamelizeFrom(s, i + 1)

\* inflection.camelize(string, uppercase_first_letter=True): the match at the
\* start of the string upper-cases the first character
inflection_camelize(s) ==
    IF s = <<>> THEN <<>> ELSE <<ToUpper(s[1])>> \o CamelizeFrom(s, 2)

\* the last position of the run of upper-case letters that starts at i
RECURSIVE RunEnd(_, _)
RunEnd(s, i) ==
    IF i < Len(s) /\ s[i + 1] \in Upper THEN RunEnd(s, i + 1) ELSE i

\* re.sub(r"([A-Z]+)([A-Z][a-z])", r"\1_\2"): a run of two or more upper-case
\* letters followed by a lower-case letter gets "_" before its last letter
RECURSIVE AcronymSplit(_, _)
AcronymSplit(s, i) ==
    IF i > Len(s) THEN <<>>
    ELSE IF s[i] \in Upper
    THEN LET q == RunEnd(s, i) IN
         IF q > i /\ q < Len(s) /\ s[q + 1] \in Lower
         THEN SubSeq(s, i, q - 1) \o <<"_", s[q], s[q + 1]>> \o AcronymSplit(s, q + 2)
         ELSE SubSeq(s, i, q) \o AcronymSplit(s, q + 1)
    ELSE <<s[i]>> \o AcronymSplit(s, i + 1)

\* re.sub(r"([a-z\d])([A-Z])", r"\1_\2"): "_" between a lower-case letter or
\* digit and the upper-case letter after it
RECURSIVE BoundarySplit(_, _)
BoundarySplit(s, i) ==
    IF i > Len(s) THEN <<>>
    ELSE IF i < Len(s) /\ s[i] \in (Lower \cup Digit) /\ s[i + 1] \in Upper
    THEN <<s[i], "_">> \o BoundarySplit(s, i + 1)
    ELSE <<s[i]>> \o BoundarySplit(s, i + 1)

\* word.replace("-", "_").lower()
DashLower(s) == [i \in 1..Len(s) |-> IF s[i] = "-" THEN "_" ELSE ToLower(s[i])]

inflection_underscore_dropsBoundary(s) == DashLower(AcronymSplit(s, 1))

inflection_underscore(s) == DashLower(BoundarySplit(AcronymSplit(s, 1), 1))

-----------------------------------------------------------------------------
(* BaseModel.recursive_camelize / recursive_underscore *)

RECURSIVE recursive_camelize(_)
recursive_camelize(camelizee) ==
    IF camelizee.t = "dict"
    THEN DictFromPairs(
            [i \in 1..Len(camelizee.d) |->
                Item(inflection_camelize(camelizee.d[i].k),
                     recursive_camelize(camelizee.d[i].v))],
            PyDict(<<>>))
    ELSE IF camelizee.t = "list"
    THEN PyList([i \in 1..Len(camelizee.l) |-> recursive_camelize(camelizee.l[i])])
    ELSE camelizee

recursive_underscore_shallow(underscoree) ==
    IF underscoree.t = "dict"
    THEN DictFromPairs(
            [i \in 1..Len(underscoree.d) |->
                Item(inflection_underscore(underscoree.d[i].k), underscoree.d[i].v)],
            PyDict(<<>>))
    ELSE underscoree

RECURSIVE recursive_underscore(_)
recursive_underscore(underscoree) ==
    IF underscoree.t = "dict"
    THEN DictFromPairs(
            [i \in 1..Len(underscoree.d) |->
                Item(inflection_underscore(underscoree.d[i].k),
                     recursive_underscore(underscoree.d[i].v))],
            PyDict(<<>>))
    ELSE IF underscoree.t = "list"
    THEN PyList([i \in 1..Len(underscoree.l) |-> recursive_underscore(underscoree.l[i])])
    ELSE underscoree

\* the classmethods BaseModel.camelize and BaseModel.underscore
camelize(dict_) == recursive_camelize(dict_)
underscore(underscoree) == recursive_underscore(underscoree)

-----------------------------------------------------------------------------
(* Key-casing scenario: a nested value, then up to MaxOps transforms of it *)

MaxKeyLen == 5
MaxNest == 2
MaxOps == 2

KeyChars == {"a", "A", "1", "_"}

CaseKeys == UNION {[1..n -> KeyChars] : n \in 1..MaxKeyLen}

\* a second key for two-key mappings, some of them colliding after a transform
SiblingKeys == {<<"a","a">>, <<"A","a">>, <<"a","a","_","a","1">>, <<"A","a","A","1">>}

\* k nested d levels deep, through mappings and lists alternately
RECURSIVE Nest(_, _)
Nest(k, d) ==
    IF d = 0 THEN PyDict(<<Item(k, PyInt(1))>>)
    ELSE PyDict(<<Item(k, PyList(<<Nest(k, d - 1), PyInt(d)>>))>>)

CaseInputs ==
    {Nest(k, d) : k \in CaseKeys, d \in 0..MaxNest}
    \cup {PyDict(<<Item(p[1], PyInt(1)), Item(p[2], PyInt(2))>>) :
            p \in {q \in CaseKeys \X SiblingKeys : q[1] # q[2]}}
    \cup {PyList(<<>>), PyInt(7), PyDict(<<>>)}

InitCase ==
    /\ orig \in CaseInputs
    /\ val = orig
    /\ ops = <<>>
    /\ call = Idle /\ outcome = Idle
    /\ part = Idle /\ acc = Idle /\ result = Idle
    /\ raw = Idle /\ items = Idle /\ ksr = Idle /\ views = <<>> /\ nextId = 0

Camelize ==
    /\ Len(ops) < MaxOps
    /\ val' = camelize(val)
    /\ ops' = Append(ops, "camelize")
    /\ UNCHANGED <<orig, call, outcome, part, acc, result, raw, items, ksr, views, nextId>>

Underscore ==
    /\ Len(ops) < MaxOps
    /\ val' = underscore(val)
    /\ ops' = Append(ops, "underscore")
    /\ UNCHANGED <<orig, call, outcome, part, acc, result, raw, items, ksr, views, nextId>>

NextCase == Camelize \/ Underscore

SpecCase == InitCase /\ [][NextCase]_vars

\* every mapping key of a value, at any depth
RECURSIVE KeysOf(_)
KeysOf(x) ==
    IF x.t = "dict"
    THEN DictKeys(x) \cup UNION {KeysOf(x.d[i].v) : i \in 1..Len(x.d)}
    ELSE IF x.t = "list" THEN UNION {KeysOf(x.l[i]) : i \in 1..Len(x.l)}
    ELSE {}

\* the underscore-separated components of a key
RECURSIVE Components(_, _)
Components(s, cur) ==
    IF s = <<>> THEN <<cur>>
    ELSE IF Head(s) = "_" THEN <<cur>> \o Components(Tail(s), <<>>)
    ELSE Components(Tail(s), Append(cur, Head(s)))

\* the upper-case-led components of a camelized key
RECURSIVE Humps(_, _)
Humps(s, cur) ==
    IF s = <<>> THEN <<cur>>
    ELSE IF Head(s) \in Upper /\ cur # <<>> THEN <<cur>> \o Humps(Tail(s), <<Head(s)>>)
    ELSE Humps(Tail(s), Append(cur, Head(s)))

\* an underscore-style identifier: lower-case words joined by single underscores
SnakeStyle(k) ==
    LET cs == Components(k, <<>>) IN
    \A i \in 1..Len(cs) :
        /\ cs[i] # <<>>
        /\ cs[i][1] \in Lower
        /\ \A j \in 1..Len(cs[i]) : cs[i][j] \in Lower \cup Digit

\* the camelized convention: words that each start with an upper-case letter
CamelStyle(k) ==
    LET hs == Humps(k, <<>>) IN
    \A i \in 1..Len(hs) :
        /\ hs[i] # <<>>
        /\ hs[i][1] \in Upper
        /\ \A j \in 2..Len(hs[i]) : hs[i][j] \in Lower \cup Digit

\* the same, with every word at least two characters long
SnakeWords(k) ==
    /\ SnakeStyle(k)
    /\ LET cs == Components(k, <<>>) IN \A i \in 1..Len(cs) : Len(cs[i]) >= 2

CamelWords(k) ==
    /\ CamelStyle(k)
    /\ LET hs == Humps(k, <<>>) IN \A i \in 1..Len(hs) : Len(hs[i]) >= 2

(* C3, as amended: on keys made of words of two or more characters (a letter
   followed by lower-case letters or digits), underscore(camelize(x)) = x for
   underscore-style keys and camelize(underscore(x)) = x for camelized keys,
   at every nesting depth. *)
CaseRoundTripOnWords ==
    /\ (ops = <<"camelize", "underscore">> /\ \A k \in KeysOf(orig) : SnakeWords(k))
            => PyEq(val, orig)
    /\ (ops = <<"underscore", "camelize">> /\ \A k \in KeysOf(orig) : CamelWords(k))
            => PyEq(val, orig)

\* a two-word key, nested, has gone through both transforms
CaseRoundTripWitness ==
    /\ ops = <<"camelize", "underscore">>
    /\ orig = Nest(<<"a","a","_","a","1">>, MaxNest)
    /\ PyEq(val, orig)

(* C3, as stated: the round trips hold for every underscore-style key and
   for every key in the camelized convention. *)
CaseRoundTripAllKeys ==
    /\ (ops = <<"camelize", "underscore">> /\ \A k \in KeysOf(orig) : SnakeStyle(k))
            => PyEq(val, orig)
    /\ (ops = <<"underscore", "camelize">> /\ \A k \in KeysOf(orig) : CamelStyle(k))
            => PyEq(val, orig)

-----------------------------------------------------------------------------
(* The schematics runtime, as BaseModel uses it: construction converts the
   raw mapping (strict: unknown keys are errors; absent fields become None),
   validate() runs the field validators and then the model's validate_<field>
   methods on the fields that passed. *)

Return(v) == [kind |-> "return", val |-> v]
Raise(e) == [kind |-> "raise", exc |-> e]

\* err.messages of a DataError: field name -> messages
PyErrors(f) == [t |-> "errors", f |-> f]

\* cls(dict_).errors, cls(dict_).is_valid: a classmethod looked up on an
\* instance is a bound method object; nothing is called
BoundMethod(cls, name) == [t |-> "method", cls |-> cls, name |-> name]

\* bool(x)
Truthy(x) ==
    CASE x.t = "none" -> FALSE
      [] x.t = "bool" -> x.b
      [] x.t = "int" -> x.n # 0
      [] x.t = "str" -> x.s # ""
      [] x.t = "list" -> x.l # <<>>
      [] x.t = "dict" -> x.d # <<>>
      [] x.t = "errors" -> DOMAIN x.f # {}
      [] x.t = "method" -> TRUE

\* class SortOptions(Enum), class SortDirections(Enum)
sort_by_parameter == "SortByParameter"
SortOptions ==
    {"SortByDigiKeyPartNumber", "SortByManufacturerPartNumber", "SortByDescription",
     "SortByManufacturer", "SortByMinimumOrderQuantity", "SortByQuantityAvailable",
     "SortByUnitPrice", sort_by_parameter}
SortDirections == {"Ascending", "Descending"}

ValueIdMinLength == 1
ValueIdMaxLength == 100
NoLimit == -1

Field(name, type, required, choices, min_length, max_length) ==
    [name |-> name, type |-> type, required |-> required, choices |-> choices,
     min_length |-> min_length, max_length |-> max_length]

\* choices = {} stands for a field declared without choices
ParametricFilters ==
    << Field("parameter_id", "int", TRUE, {}, NoLimit, NoLimit),
       Field("value_id", "str", TRUE, {}, ValueIdMinLength, ValueIdMaxLength) >>

Sort ==
    << Field("sort_option", "str", TRUE, SortOptions, NoLimit, NoLimit),
       Field("direction", "str", TRUE, SortDirections, NoLimit, NoLimit),
       Field("sort_parameter_id", "int", FALSE, {}, NoLimit, NoLimit) >>

Schema(cls) == IF cls = "Sort" THEN Sort ELSE ParametricFilters

FieldNames(cls) == {Schema(cls)[i].name : i \in 1..Len(Schema(cls))}

\* the numerals among the inputs, for int("...")
Numerals == [s \in {"7"} |-> 7]

\* str(n)
DigitStrings == <<"0", "1", "2", "3", "4", "5", "6", "7", "8", "9">>
RECURSIVE Decimal(_)
Decimal(n) ==
    IF n < 0 THEN "-" \o Decimal(0 - n)
    ELSE IF n < 10 THEN DigitStrings[n + 1]
    ELSE Decimal(n \div 10) \o DigitStrings[(n % 10) + 1]

\* IntType / StringType conversion of a raw value; None stays None; an int
\* given to a StringType is cast with str()
Convert(type, x) ==
    IF x.t = "none" THEN [ok |-> TRUE, v |-> x]
    ELSE IF type = "int"
    THEN IF x.t = "int" THEN [ok |-> TRUE, v |-> x]
         ELSE IF x.t = "str" /\ x.s \in DOMAIN Numerals
         THEN [ok |-> TRUE, v |-> PyInt(Numerals[x.s])]
         ELSE [ok |-> FALSE, msg |-> "Value is not int."]
    ELSE IF x.t = "str" THEN [ok |-> TRUE, v |-> x]
         ELSE IF x.t = "int" THEN [ok |-> TRUE, v |-> PyStr(Decimal(x.n))]
         ELSE [ok |-> FALSE, msg |-> "Couldn't interpret value as string."]

\* cls(dict_): [ok, data] or the DataError's messages
Construct(cls, dict_) ==
    LET names == FieldNames(cls)
        field(n) == Schema(cls)[CHOOSE i \in 1..Len(Schema(cls)) : Schema(cls)[i].name = n]
        given(n) == IF n \in DOMAIN dict_ THEN dict_[n] ELSE PyNone
        conv(n) == Convert(field(n).type, given(n))
        rogue == DOMAIN dict_ \ names
        bad == {n \in names : ~conv(n).ok}
    IN  IF rogue \cup bad # {}
        THEN [ok |-> FALSE,
              messages |-> [n \in rogue \cup bad |->
                              IF n \in rogue THEN <<"Rogue field">> ELSE <<conv(n).msg>>]]
        ELSE [ok |-> TRUE, data |-> [n \in names |-> conv(n).v]]

\* the field validators of one converted value: required, choices, length
FieldMessages(f, x) ==
    IF x.t = "none"
    THEN IF f.required THEN <<"This field is required.">> ELSE <<>>
    ELSE (IF f.choices # {} /\ x.s \notin f.choices
          THEN <<"Value must be one of the choices.">> ELSE <<>>)
      \o (IF f.type = "str" /\ f.min_length # NoLimit /\ Len(x.s) < f.min_length
          THEN <<"String value is too short.">> ELSE <<>>)
      \o (IF f.type = "str" /\ f.max_length # NoLimit /\ Len(x.s) > f.max_length
          THEN <<"String value is too long.">> ELSE <<>>)

\* a Sort validator that forgets the "else" branch
validate_sort_parameter_id_oneWay(data, value) ==
    IF "sort_option" \notin DOMAIN data THEN Raise("KeyError")
    ELSE IF data["sort_option"] = PyStr(sort_by_parameter)
         THEN IF data["sort_parameter_id"].t = "none"
              THEN Raise("ValidationError: If sorting by parameter a sort parameter must be set")
              ELSE Return(value)
         ELSE Return(value)

\* Sort.validate_sort_parameter_id(self, data, value); data holds only the
\* fields whose own validation passed, and data[...] of a missing one raises
validate_sort_parameter_id(data, value) ==
    IF "sort_option" \notin DOMAIN data THEN Raise("KeyError")
    ELSE IF data["sort_option"] = PyStr(sort_by_parameter)
         THEN IF data["sort_parameter_id"].t = "none"
              THEN Raise("ValidationError: If sorting by parameter a sort parameter must be set")
              ELSE Return(value)
         ELSE IF data["sort_parameter_id"].t # "none"
              THEN Raise("ValidationError: If not sorting by parameter no sort parameter id should be provided")
              ELSE Return(value)

\* instance.validate(): "ok", the DataError's messages, or the exception a
\* model validator let through
Validate(cls, data) ==
    LET field(n) == Schema(cls)[CHOOSE i \in 1..Len(Schema(cls)) : Schema(cls)[i].name = n]
        bad == {n \in DOMAIN data : FieldMessages(field(n), data[n]) # <<>>}
        partial == [n \in DOMAIN data \ bad |-> data[n]]
        mv == IF cls = "Sort" /\ "sort_parameter_id" \in DOMAIN partial
              THEN validate_sort_parameter_id(partial, partial["sort_parameter_id"])
              ELSE Return(PyNone)
        mvbad == IF mv.kind = "raise" /\ mv.exc # "KeyError" THEN {"sort_parameter_id"} ELSE {}
    IN  IF mv.kind = "raise" /\ mv.exc = "KeyError" THEN [kind |-> "raise", exc |-> "KeyError"]
        ELSE IF bad \cup mvbad # {}
        THEN [kind |-> "DataError",
              messages |-> [n \in bad \cup mvbad |->
                              IF n \in bad THEN FieldMessages(field(n), data[n]) ELSE <<mv.exc>>]]
        ELSE [kind |-> "ok"]

-----------------------------------------------------------------------------
(* BaseModel.errors, errors_list, is_valid, is_valid_list *)

errors(cls, dict_) ==
    LET c == Construct(cls, dict_) IN
    IF ~c.ok THEN Return(PyErrors(c.messages))
    ELSE LET v == Validate(cls, c.data) IN
         IF v.kind = "ok" THEN Return(PyNone)
         ELSE IF v.kind = "DataError" THEN Return(PyErrors(v.messages))
         ELSE Raise(v.exc)

errors_list(cls, list_) ==
    LET built == [i \in 1..Len(list_) |-> Construct(cls, list_[i])]
        failed == {i \in 1..Len(list_) : ~built[i].ok}
    IN  IF failed # {}
        THEN Return(PyErrors(built[CHOOSE i \in failed : \A j \in failed : i <= j].messages))
        ELSE LET errs == [i \in 1..Len(list_) |-> BoundMethod(cls, "errors")] IN
             IF \E i \in 1..Len(errs) : Truthy(errs[i])
             THEN Return(PyList(SelectSeq(errs, Truthy)))
             ELSE Return(PyNone)

is_valid(cls, dict_) ==
    LET e == errors(cls, dict_) IN
    IF e.kind = "raise" THEN e ELSE Return(PyBool(~Truthy(e.val)))

is_valid_list(cls, list_) ==
    LET built == [i \in 1..Len(list_) |-> Construct(cls, list_[i])] IN
    IF \E i \in 1..Len(list_) : ~built[i].ok
    THEN Return(PyBool(FALSE))
    ELSE Return(PyBool(\A i \in 1..Len(list_) : Truthy(BoundMethod(cls, "is_valid"))))

-----------------------------------------------------------------------------
(* Validation scenario: one call of an entry point on a raw mapping or on a
   list of raw mappings *)

MaxListLen == 2

Absent == [t |-> "absent"]

Long101 ==
    "xxxxxxxxxxxxxxxxxxxxxxxxxxxxxxxxxxxxxxxxxxxxxxxxxx" \o
    "xxxxxxxxxxxxxxxxxxxxxxxxxxxxxxxxxxxxxxxxxxxxxxxxxx" \o "x"

\* the mapping that holds the fields chosen other than Absent
Restrict(f) == [n \in {m \in DOMAIN f : f[m] # Absent} |-> f[n]]

SortRaws ==
    {Restrict(f) : f \in
        [sort_option : {PyStr(o) : o \in SortOptions} \cup {PyStr("Bogus"), PyNone, Absent},
         direction : {PyStr("Ascending"), PyStr("Descending"), PyStr("Sideways"), Absent},
         sort_parameter_id : {PyNone, PyInt(7), PyStr("7"), PyStr("abc"), Absent},
         extra : {PyInt(1), Absent}]}

FilterRaws ==
    {Restrict(f) : f \in
        [parameter_id : {PyInt(1), PyStr("abc"), PyNone, Absent},
         value_id : {PyStr("x"), PyStr(""), PyStr(Long101), PyList(<<>>), Absent}]}

\* a few Sort mappings for lists: valid, cross-field violation (both ways),
\* not a choice, unconvertible
SortListPool ==
    {s \in SortRaws :
        /\ DOMAIN s = {"sort_option", "direction", "sort_parameter_id"}
        /\ s["direction"] = PyStr("Ascending")
        /\ s["sort_option"] \in {PyStr("SortByUnitPrice"), PyStr(sort_by_parameter), PyStr("Bogus")}
        /\ s["sort_parameter_id"] \in {PyNone, PyInt(7), PyStr("abc")}}

Lists(S) == UNION {[1..n -> S] : n \in 0..MaxListLen}

\* the argument of a call: one raw mapping, or a list of them
OneMapping(m) == [t |-> "mapping", m |-> m]
ListOf(s) == [t |-> "list", l |-> s]

Input(cls, a) == [cls |-> cls, arg |-> a, fn |-> "none"]

ValidationInputs ==
    {Input("Sort", OneMapping(m)) : m \in SortRaws}
    \cup {Input("Sort", ListOf(l)) : l \in Lists(SortListPool)}
    \cup {Input("ParametricFilters", OneMapping(m)) : m \in FilterRaws}
    \cup {Input("ParametricFilters", ListOf(l)) : l \in Lists(FilterRaws)}

InitValidate ==
    /\ call \in ValidationInputs
    /\ outcome = Idle
    /\ orig = Idle /\ val = Idle /\ ops = <<>>
    /\ part = Idle /\ acc = Idle /\ result = Idle
    /\ raw = Idle /\ items = Idle /\ ksr = Idle /\ views = <<>> /\ nextId = 0

Others == <<orig, val, ops, part, acc, result, raw, items, ksr, views, nextId>>

CallErrors ==
    /\ outcome = Idle /\ call.arg.t = "mapping"
    /\ call' = [call EXCEPT !.fn = "errors"]
    /\ outcome' = errors(call.cls, call.arg.m)
    /\ UNCHANGED Others

CallIsValid ==
    /\ outcome = Idle /\ call.arg.t = "mapping"
    /\ call' = [call EXCEPT !.fn = "is_valid"]
    /\ outcome' = is_valid(call.cls, call.arg.m)
    /\ UNCHANGED Others

CallErrorsList ==
    /\ outcome = Idle /\ call.arg.t = "list"
    /\ call' = [call EXCEPT !.fn = "errors_list"]
    /\ outcome' = errors_list(call.cls, call.arg.l)
    /\ UNCHANGED Others

CallIsValidList ==
    /\ outcome = Idle /\ call.arg.t = "list"
    /\ call' = [call EXCEPT !.fn = "is_valid_list"]
    /\ outcome' = is_valid_list(call.cls, call.arg.l)
    /\ UNCHANGED Others

NextValidate == CallErrors \/ CallIsValid \/ CallErrorsList \/ CallIsValidList

SpecValidate == InitValidate /\ [][NextValidate]_vars

-----------------------------------------------------------------------------
(* Validation claims *)

RawOf(m, n) == IF n \in DOMAIN m THEN m[n] ELSE PyNone

\* a Sort mapping with an allowed sort_option and direction, a
\* sort_parameter_id that is null or an integer, and no other key
SortInDomain(m) ==
    /\ DOMAIN m \subseteq FieldNames("Sort")
    /\ RawOf(m, "sort_option") \in {PyStr(o) : o \in SortOptions}
    /\ RawOf(m, "direction") \in {PyStr(d) : d \in SortDirections}
    /\ RawOf(m, "sort_parameter_id").t \in {"none", "int"}

\* the conditional rule: the id is set exactly when sorting by parameter
SortRuleBroken(m) ==
    (RawOf(m, "sort_option") = PyStr(sort_by_parameter)) = (RawOf(m, "sort_parameter_id").t = "none")

(* C1: for a Sort input with allowed sort_option and direction, Sort.errors
   reports a failure keyed by sort_parameter_id when the option is
   SortByParameter and the id is null, and when the option is another one
   and the id is non-null; otherwise it reports no error. *)
SortRuleBothWays ==
    (call.fn = "errors" /\ call.cls = "Sort" /\ SortInDomain(call.arg.m)) =>
        IF SortRuleBroken(call.arg.m)
        THEN /\ outcome.kind = "return"
             /\ outcome.val.t = "errors"
             /\ "sort_parameter_id" \in DOMAIN outcome.val.f
        ELSE outcome = Return(PyNone)

\* Sort.errors has rejected SortByDescription with sort_parameter_id 7
SortRuleWitness ==
    /\ call.fn = "errors" /\ call.cls = "Sort"
    /\ call.arg.m = [sort_option |-> PyStr("SortByDescription"),
                     direction |-> PyStr("Ascending"),
                     sort_parameter_id |-> PyInt(7)]
    /\ outcome.kind = "return" /\ outcome.val.t = "errors"
    /\ DOMAIN outcome.val.f = {"sort_parameter_id"}

\* a raw mapping is fully valid: it converts, every field passes its
\* validators and the cross-field rule holds
FullyValid(cls, m) ==
    /\ Construct(cls, m).ok
    /\ \A i \in 1..Len(Schema(cls)) :
          FieldMessages(Schema(cls)[i], Construct(cls, m).data[Schema(cls)[i].name]) = <<>>
    /\ cls = "Sort" => ~SortRuleBroken(Construct(cls, m).data)

InvalidCount(cls, l) == Cardinality({i \in 1..Len(l) : ~FullyValid(cls, l[i])})

(* C2: errors_list returns None exactly when every element is fully valid;
   otherwise a list with one error report per invalid element, so its
   length is the number of invalid elements. *)
ErrorsListReportsInvalidOnes ==
    call.fn = "errors_list" =>
        /\ outcome.kind = "return"
        /\ (InvalidCount(call.cls, call.arg.l) = 0) = (outcome.val = PyNone)
        /\ InvalidCount(call.cls, call.arg.l) > 0 =>
              /\ outcome.val.t = "list"
              /\ Len(outcome.val.l) = InvalidCount(call.cls, call.arg.l)
              /\ \A i \in 1..Len(outcome.val.l) : outcome.val.l[i].t = "errors"

(* C4: errors, errors_list and is_valid never raise for malformed data: a
   constraint violation, a missing required field, a conversion failure or a
   cross-field violation comes back as an error report (False from
   is_valid), whether it arises at construction or at validation. *)
MalformedDataIsReported ==
    LET malformed == IF call.arg.t = "mapping" THEN ~FullyValid(call.cls, call.arg.m)
                     ELSE InvalidCount(call.cls, call.arg.l) > 0
    IN  (call.fn \in {"errors", "errors_list", "is_valid"} /\ malformed) =>
            /\ outcome.kind = "return"
            /\ call.fn = "errors" => outcome.val.t = "errors"
            /\ call.fn = "is_valid" => outcome.val = PyBool(FALSE)
            /\ call.fn = "errors_list" =>
                  \/ outcome.val.t = "errors"
                  \/ /\ outcome.val.t = "list"
                     /\ \A i \in 1..Len(outcome.val.l) : outcome.val.l[i].t = "errors"

(* C10: is_valid_list(list) is True exactly when is_valid(element) is True
   for every element, and False when an element violates a constraint, a
   required-field rule or a cross-field rule. *)
IsValidListAgreesWithIsValid ==
    call.fn = "is_valid_list" =>
        outcome = Return(PyBool(\A i \in 1..Len(call.arg.l) :
                                    is_valid(call.cls, call.arg.l[i]) = Return(PyBool(TRUE))))

-----------------------------------------------------------------------------
(* Response value objects: Part, PriceBreak, IdTextPair, PidVid, Family.
   An object is [t |-> <class>, v |-> <the raw value it was given>]; the
   constructors store the argument and check nothing. *)

PyFloat(n) == [t |-> "float", x |-> n]

Wrap(cls, x) == [t |-> cls, v |-> x]

\* x.get(key, default): only a dict has the method
get_ignoresDefault(x, key, default) ==
    IF x.t = "dict" THEN Return(DictGet(x, key, PyNone)) ELSE Raise("AttributeError")

get(x, key, default) ==
    IF x.t = "dict" THEN Return(DictGet(x, key, default)) ELSE Raise("AttributeError")

\* "for p in x": the elements of a list, the keys of a dict; None and
\* numbers are not iterable
Iterate(x) ==
    CASE x.t = "list" -> Return(x.l)
      [] x.t = "dict" -> Return([i \in 1..Len(x.d) |-> x.d[i].k])
      [] OTHER -> Raise("TypeError")

\* hash(x), as a dict key needs it
Hashable(x) == x.t \notin {"list", "dict"}

PriceBreak_breakquantity(self) == get(self.v, PyStr("BreakQuantity"), PyInt(0))
PriceBreak_unitprice(self) == get(self.v, PyStr("UnitPrice"), PyFloat(0))
PriceBreak_totalprice(self) == get(self.v, PyStr("TotalPrice"), PyFloat(0))

IdTextPair_id(self) == get(self.v, PyStr("Id"), PyStr(""))
IdTextPair_text(self) == get(self.v, PyStr("Text"), PyStr(""))

PidVid_parameter_id(self) == get(self.v, PyStr("ParameterId"), PyInt(0))
PidVid_value_id(self) == get(self.v, PyStr("ValueId"), PyInt(0))
PidVid_parameter(self) == get(self.v, PyStr("Parameter"), PyStr(""))
PidVid_value(self) == get(self.v, PyStr("Value"), PyStr(""))

Family_id(self) == get(self.v, PyStr("Id"), PyStr(""))
Family_name(self) == get(self.v, PyStr("Name"), PyStr(""))
Family_part_count(self) == get(self.v, PyStr("PartCount"), PyInt(0))

BaseUrl == "https://www.digikey.com"

Part_standard_pricing(self) ==
    LET g == get(self.v, PyStr("StandardPricing"), PyList(<<>>)) IN
    IF g.kind = "raise" THEN g
    ELSE LET it == Iterate(g.val) IN
         IF it.kind = "raise" THEN it
         ELSE Return(PyList([i \in 1..Len(it.val) |-> Wrap("PriceBreak", it.val[i])]))

Part_category(self) ==
    LET g == get(self.v, PyStr("Category"), PyDict(<<>>)) IN
    IF g.kind = "raise" THEN g ELSE Return(Wrap("IdTextPair", g.val))

Part_family(self) ==
    LET g == get(self.v, PyStr("Family"), PyDict(<<>>)) IN
    IF g.kind = "raise" THEN g ELSE Return(Wrap("IdTextPair", g.val))

Part_manufacturer(self) ==
    LET g == get(self.v, PyStr("Manufacturer"), PyDict(<<>>)) IN
    IF g.kind = "raise" THEN g ELSE PidVid_value(Wrap("PidVid", g.val))

Part_mpn(self) == get(self.v, PyStr("ManufacturerPartNumber"), PyNone)
Part_part_status(self) == get(self.v, PyStr("PartStatus"), PyNone)
Part_digikey_pn(self) == get(self.v, PyStr("DigiKeyPartNumber"), PyNone)

\* 'https://www.digikey.com' + x: str + str only
Part_digikey_url(self) ==
    LET g == get(self.v, PyStr("PartUrl"), PyStr("")) IN
    IF g.kind = "raise" THEN g
    ELSE IF g.val.t = "str" THEN Return(PyStr(BaseUrl \o g.val.s))
    ELSE Raise("TypeError")

Part_in_stock(self) == get(self.v, PyStr("QuantityAvailable"), PyNone)
Part_moq(self) == get(self.v, PyStr("MinimumOrderQuantity"), PyNone)

\* {p.parameter: p.value for p in [PidVid(param) for param in ...]}
Part_parameters(self) ==
    LET g == get(self.v, PyStr("Parameters"), PyList(<<>>)) IN
    IF g.kind = "raise" THEN g
    ELSE LET it == Iterate(g.val) IN
         IF it.kind = "raise" THEN it
         ELSE LET _params == [i \in 1..Len(it.val) |-> Wrap("PidVid", it.val[i])]
                  key(i) == PidVid_parameter(_params[i])
                  value(i) == PidVid_value(_params[i])
                  n == Len(_params)
              IN  IF \E i \in 1..n : key(i).kind = "raise" THEN Raise("AttributeError")
                  ELSE IF \E i \in 1..n : ~Hashable(key(i).val) THEN Raise("TypeError")
                  ELSE Return(DictFromPairs([i \in 1..n |-> Item(key(i).val, value(i).val)],
                                            PyDict(<<>>)))

Part_description_product(self) == get(self.v, PyStr("ProductDescription"), PyNone)
Part_description_detailed(self) == get(self.v, PyStr("DetailedDescription"), PyNone)
Part_datasheet(self) == get(self.v, PyStr("PrimaryDatasheet"), PyNone)

Accessors(cls) ==
    CASE cls = "Part" ->
            {"standard_pricing", "category", "family", "manufacturer", "mpn", "part_status",
             "digikey_pn", "digikey_url", "in_stock", "moq", "parameters",
             "description_product", "description_detailed", "datasheet"}
      [] cls = "PriceBreak" -> {"breakquantity", "unitprice", "totalprice"}
      [] cls = "IdTextPair" -> {"id", "text"}
      [] cls = "PidVid" -> {"parameter_id", "value_id", "parameter", "value"}
      [] cls = "Family" -> {"id", "name", "part_count"}

\* self.<a>
ReadAccessor(self, a) ==
    CASE self.t = "Part" ->
            (CASE a = "standard_pricing" -> Part_standard_pricing(self)
               [] a = "category" -> Part_category(self)
               [] a = "family" -> Part_family(self)
               [] a = "manufacturer" -> Part_manufacturer(self)
               [] a = "mpn" -> Part_mpn(self)
               [] a = "part_status" -> Part_part_status(self)
               [] a = "digikey_pn" -> Part_digikey_pn(self)
               [] a = "digikey_url" -> Part_digikey_url(self)
               [] a = "in_stock" -> Part_in_stock(self)
               [] a = "moq" -> Part_moq(self)
               [] a = "parameters" -> Part_parameters(self)
               [] a = "description_product" -> Part_description_product(self)
               [] a = "description_detailed" -> Part_description_detailed(self)
               [] a = "datasheet" -> Part_datasheet(self))
      [] self.t = "PriceBreak" ->
            (CASE a = "breakquantity" -> PriceBreak_breakquantity(self)
               [] a = "unitprice" -> PriceBreak_unitprice(self)
               [] a = "totalprice" -> PriceBreak_totalprice(self))
      [] self.t = "IdTextPair" ->
            (CASE a = "id" -> IdTextPair_id(self)
               [] a = "text" -> IdTextPair_text(self))
      [] self.t = "PidVid" ->
            (CASE a = "parameter_id" -> PidVid_parameter_id(self)
               [] a = "value_id" -> PidVid_value_id(self)
               [] a = "parameter" -> PidVid_parameter(self)
               [] a = "value" -> PidVid_value(self))
      [] self.t = "Family" ->
            (CASE a = "id" -> Family_id(self)
               [] a = "name" -> Family_name(self)
               [] a = "part_count" -> Family_part_count(self))

-----------------------------------------------------------------------------
(* Value-object scenario: an object over a raw mapping with up to MaxFields
   keys, one accessor read; a returned wrapper can be read in turn *)

MaxFields == 2

D1(k, v) == PyDict(<<Item(PyStr(k), v)>>)
D2(k1, v1, k2, v2) == PyDict(<<Item(PyStr(k1), v1), Item(PyStr(k2), v2)>>)

PartKeys ==
    <<"StandardPricing", "Category", "Family", "Manufacturer", "ManufacturerPartNumber",
      "PartStatus", "DigiKeyPartNumber", "PartUrl", "QuantityAvailable",
      "MinimumOrderQuantity", "Parameters", "ProductDescription", "DetailedDescription",
      "PrimaryDatasheet">>

\* per key: values of the wire shape, then null and values of another shape
WireValues(k) ==
    CASE k = "StandardPricing" ->
            {PyList(<<>>),
             PyList(<<D2("BreakQuantity", PyInt(10), "UnitPrice", PyFloat(2)), PyDict(<<>>)>>)}
      [] k \in {"Category", "Family"} ->
            {PyDict(<<>>), D2("Id", PyStr("3"), "Text", PyStr("Capacitors")), D1("Text", PyNone)}
      [] k = "Manufacturer" ->
            {PyDict(<<>>), D2("ParameterId", PyInt(-1), "Value", PyStr("Acme"))}
      [] k = "PartUrl" -> {PyStr("/product/1")}
      [] k = "Parameters" ->
            {PyList(<<>>),
             PyList(<<D2("Parameter", PyStr("Color"), "Value", PyStr("Red")),
                      D1("Parameter", PyStr("Size")),
                      D2("Parameter", PyStr("Color"), "Value", PyStr("Blue"))>>)}
      [] k \in {"QuantityAvailable", "MinimumOrderQuantity"} -> {PyInt(5), PyNone}
      [] OTHER -> {PyStr("text"), PyNone}

OddValues(k) ==
    CASE k \in {"StandardPricing", "Parameters"} -> {PyNone, PyInt(3), PyList(<<PyNone>>)}
      [] k \in {"Category", "Family", "Manufacturer"} -> {PyNone, PyStr("Acme")}
      [] k = "PartUrl" -> {PyNone, PyInt(3)}
      [] OTHER -> {PyList(<<>>)}

PartItems ==
    {<<i, v>> : i \in 1..Len(PartKeys), v \in
        UNION {WireValues(PartKeys[j]) \cup OddValues(PartKeys[j]) : j \in 1..Len(PartKeys)}}

\* raw mappings with n keys, in the order of PartKeys
PartRaws(n) ==
    {PyDict([i \in 1..n |-> Item(PyStr(PartKeys[c[i][1]]), c[i][2])]) :
        c \in {d \in [1..n -> PartItems] :
                /\ \A i \in 1..n : d[i][2] \in WireValues(PartKeys[d[i][1]]) \cup OddValues(PartKeys[d[i][1]])
                /\ \A i \in 1..(n - 1) : d[i][1] < d[i + 1][1]}}

SmallRaws(keys, vals) ==
    {PyDict(<<>>)}
    \cup {D1(k, v) : k \in keys, v \in vals}
    \cup {D2(p[1], v1, p[2], v2) : p \in {q \in keys \X keys : q[1] # q[2]}, v1 \in vals, v2 \in vals}

PartInputs ==
    {Wrap("Part", r) : r \in UNION {PartRaws(n) : n \in 0..MaxFields}}
    \cup {Wrap("PriceBreak", r) :
            r \in SmallRaws({"BreakQuantity", "UnitPrice", "TotalPrice"}, {PyInt(10), PyFloat(2), PyNone})}
    \cup {Wrap("IdTextPair", r) : r \in SmallRaws({"Id", "Text"}, {PyStr("3"), PyNone})}
    \cup {Wrap("PidVid", r) :
            r \in SmallRaws({"ParameterId", "ValueId", "Parameter", "Value"}, {PyInt(4), PyStr("Red")})}
    \cup {Wrap("Family", r) : r \in SmallRaws({"Id", "Name", "PartCount"}, {PyInt(8), PyStr("Film")})}

ValueObjects == {"Part", "PriceBreak", "IdTextPair", "PidVid", "Family"}

InitPart ==
    /\ part \in PartInputs
    /\ acc = Idle /\ result = Idle
    /\ orig = Idle /\ val = Idle /\ ops = <<>>
    /\ call = Idle /\ outcome = Idle
    /\ raw = Idle /\ items = Idle /\ ksr = Idle /\ views = <<>> /\ nextId = 0

NotPart == <<orig, val, ops, call, outcome, raw, items, ksr, views, nextId>>

\* read one accessor of the object
Read ==
    /\ result = Idle
    /\ \E a \in Accessors(part.t) :
          /\ acc' = [t |-> "acc", a |-> a]
          /\ result' = ReadAccessor(part, a)
    /\ UNCHANGED <<part>>
    /\ UNCHANGED NotPart

\* go on with a value object that the accessor returned, alone or in a list
Follow ==
    /\ result # Idle /\ result.kind = "return"
    /\ \/ /\ result.val.t \in ValueObjects
          /\ part' = result.val
       \/ /\ result.val.t = "list"
          /\ \E i \in 1..Len(result.val.l) :
                /\ result.val.l[i].t \in ValueObjects
                /\ part' = result.val.l[i]
    /\ acc' = Idle /\ result' = Idle
    /\ UNCHANGED NotPart

NextPart == Read \/ Follow

SpecPart == InitPart /\ [][NextPart]_vars

-----------------------------------------------------------------------------
(* Value-object claims *)

\* the accessors that read one raw field: its key and its declared default
Declared ==
    [x \in {<<"Part", "mpn">>, <<"Part", "part_status">>, <<"Part", "digikey_pn">>,
            <<"Part", "in_stock">>, <<"Part", "moq">>, <<"Part", "description_product">>,
            <<"Part", "description_detailed">>, <<"Part", "datasheet">>,
            <<"PriceBreak", "breakquantity">>, <<"PriceBreak", "unitprice">>,
            <<"PriceBreak", "totalprice">>, <<"IdTextPair", "id">>, <<"IdTextPair", "text">>,
            <<"PidVid", "parameter_id">>, <<"PidVid", "value_id">>, <<"PidVid", "parameter">>,
            <<"PidVid", "value">>, <<"Family", "id">>, <<"Family", "name">>,
            <<"Family", "part_count">>} |->
        CASE x = <<"Part", "mpn">> -> <<"ManufacturerPartNumber", PyNone>>
          [] x = <<"Part", "part_status">> -> <<"PartStatus", PyNone>>
          [] x = <<"Part", "digikey_pn">> -> <<"DigiKeyPartNumber", PyNone>>
          [] x = <<"Part", "in_stock">> -> <<"QuantityAvailable", PyNone>>
          [] x = <<"Part", "moq">> -> <<"MinimumOrderQuantity", PyNone>>
          [] x = <<"Part", "description_product">> -> <<"ProductDescription", PyNone>>
          [] x = <<"Part", "description_detailed">> -> <<"DetailedDescription", PyNone>>
          [] x = <<"Part", "datasheet">> -> <<"PrimaryDatasheet", PyNone>>
          [] x = <<"PriceBreak", "breakquantity">> -> <<"BreakQuantity", PyInt(0)>>
          [] x = <<"PriceBreak", "unitprice">> -> <<"UnitPrice", PyFloat(0)>>
          [] x = <<"PriceBreak", "totalprice">> -> <<"TotalPrice", PyFloat(0)>>
          [] x = <<"IdTextPair", "id">> -> <<"Id", PyStr("")>>
          [] x = <<"IdTextPair", "text">> -> <<"Text", PyStr("")>>
          [] x = <<"PidVid", "parameter_id">> -> <<"ParameterId", PyInt(0)>>
          [] x = <<"PidVid", "value_id">> -> <<"ValueId", PyInt(0)>>
          [] x = <<"PidVid", "parameter">> -> <<"Parameter", PyStr("")>>
          [] x = <<"PidVid", "value">> -> <<"Value", PyStr("")>>
          [] x = <<"Family", "id">> -> <<"Id", PyStr("")>>
          [] x = <<"Family", "name">> -> <<"Name", PyStr("")>>
          [] x = <<"Family", "part_count">> -> <<"PartCount", PyInt(0)>>]

Has(d, k) == DictHas(d, PyStr(k))
At(d, k) == DictAt(d, PyStr(k))

\* the raw field under k is absent, or present with a value of the wire shape
WireOrAbsent(d, k) == Has(d, k) => At(d, k) \in WireValues(k)

\* what the accessors that derive their value from a raw field must return
DerivedOk ==
    LET d == part.v
        a == acc.a
    IN  /\ (a = "manufacturer" /\ WireOrAbsent(d, "Manufacturer")) =>
              result = Return(IF Has(d, "Manufacturer") /\ Has(At(d, "Manufacturer"), "Value")
                              THEN At(At(d, "Manufacturer"), "Value") ELSE PyStr(""))
        /\ (a = "digikey_url" /\ WireOrAbsent(d, "PartUrl")) =>
              result = Return(PyStr(IF Has(d, "PartUrl")
                                    THEN "https://www.digikey.com" \o At(d, "PartUrl").s
                                    ELSE "https://www.digikey.com"))
        /\ (a = "standard_pricing" /\ WireOrAbsent(d, "StandardPricing")) =>
              LET given == IF Has(d, "StandardPricing") THEN At(d, "StandardPricing").l ELSE <<>> IN
              /\ result.kind = "return" /\ result.val.t = "list"
              /\ Len(result.val.l) = Len(given)
              /\ \A i \in 1..Len(given) : result.val.l[i] = [t |-> "PriceBreak", v |-> given[i]]
        /\ (a = "parameters" /\ WireOrAbsent(d, "Parameters")) =>
              LET given == IF Has(d, "Parameters") THEN At(d, "Parameters").l ELSE <<>>
                  name(i) == IF Has(given[i], "Parameter") THEN At(given[i], "Parameter") ELSE PyStr("")
                  value(i) == IF Has(given[i], "Value") THEN At(given[i], "Value") ELSE PyStr("")
              IN  /\ result.kind = "return" /\ result.val.t = "dict"
                  /\ DictKeys(result.val) = {name(i) : i \in 1..Len(given)}
                  /\ \A i \in 1..Len(given) :
                        (\A j \in (i + 1)..Len(given) : name(j) # name(i)) =>
                            DictAt(result.val, name(i)) = value(i)
        /\ (a = "category" /\ WireOrAbsent(d, "Category")) =>
              result = Return([t |-> "IdTextPair",
                               v |-> IF Has(d, "Category") THEN At(d, "Category") ELSE PyDict(<<>>)])
        /\ (a = "family" /\ WireOrAbsent(d, "Family")) =>
              result = Return([t |-> "IdTextPair",
                               v |-> IF Has(d, "Family") THEN At(d, "Family") ELSE PyDict(<<>>)])

(* C7: every accessor of a value object returns the raw field's value when
   its key is present and its declared default when it is absent: None for
   the plain Part fields, 0 / 0.0 / '' for the PriceBreak, IdTextPair,
   PidVid and Family fields, '' for Part.manufacturer, the bare base URL for
   Part.digikey_url, empty for Part.standard_pricing and Part.parameters. *)
AccessorsReturnFieldOrDefault ==
    (result # Idle /\ part.v.t = "dict") =>
        /\ <<part.t, acc.a>> \in DOMAIN Declared =>
              LET key == Declared[<<part.t, acc.a>>][1]
                  default == Declared[<<part.t, acc.a>>][2]
              IN  result = Return(IF Has(part.v, key) THEN At(part.v, key) ELSE default)
        /\ part.t = "Part" => DerivedOk

\* Part({'MinimumOrderQuantity': 5}).moq has returned 5
AccessorsWitness ==
    /\ part = [t |-> "Part", v |-> D1("MinimumOrderQuantity", PyInt(5))]
    /\ acc = [t |-> "acc", a |-> "moq"]
    /\ result = Return(PyInt(5))

(* C8: reading an accessor of a Part never fails, also when a raw field is
   present with a null value or a value of the wrong shape. *)
PartAccessorsNeverRaise ==
    (result # Idle /\ part.t = "Part" /\ part.v.t = "dict") => result.kind = "return"

-----------------------------------------------------------------------------
(* The response models LimitedTaxonomy, FilterOption and Value, and the
   KeywordSearchResult aggregate.  The raw taxonomy and filter options are
   dicts with character-sequence keys in the wire casing. *)

\* the keys and field names, as character sequences
Chars ==
    [s \in {"ProductCount", "NewProductCount", "ParameterId", "ValueId", "Parameter", "Value", "Children", "Values",
             "product_count", "new_product_count", "parameter_id", "value_id", "parameter", "value", "children", "values"} |->
        CASE s = "ProductCount" -> <<"P","r","o","d","u","c","t","C","o","u","n","t">>
          [] s = "NewProductCount" -> <<"N","e","w","P","r","o","d","u","c","t","C","o","u","n","t">>
          [] s = "ParameterId" -> <<"P","a","r","a","m","e","t","e","r","I","d">>
          [] s = "ValueId" -> <<"V","a","l","u","e","I","d">>
          [] s = "Parameter" -> <<"P","a","r","a","m","e","t","e","r">>
          [] s = "Value" -> <<"V","a","l","u","e">>
          [] s = "Children" -> <<"C","h","i","l","d","r","e","n">>
          [] s = "Values" -> <<"V","a","l","u","e","s">>
          [] s = "product_count" -> <<"p","r","o","d","u","c","t","_","c","o","u","n","t">>
          [] s = "new_product_count" -> <<"n","e","w","_","p","r","o","d","u","c","t","_","c","o","u","n","t">>
          [] s = "parameter_id" -> <<"p","a","r","a","m","e","t","e","r","_","i","d">>
          [] s = "value_id" -> <<"v","a","l","u","e","_","i","d">>
          [] s = "parameter" -> <<"p","a","r","a","m","e","t","e","r">>
          [] s = "value" -> <<"v","a","l","u","e">>
          [] s = "children" -> <<"c","h","i","l","d","r","e","n">>
          [] s = "values" -> <<"v","a","l","u","e","s">>]

RField(name, type, of) == [name |-> name, type |-> type, of |-> of]

\* children is appended after the class body: ListType(ModelType(LimitedTaxonomy))
LimitedTaxonomy ==
    << RField("product_count", "int", ""), RField("new_product_count", "int", ""),
       RField("parameter_id", "int", ""), RField("value_id", "str", ""),
       RField("parameter", "str", ""), RField("value", "str", ""),
       RField("children", "list", "LimitedTaxonomy") >>

Value == << RField("value_id", "str", ""), RField("value", "str", "") >>

FilterOption ==
    << RField("values", "list", "Value"), RField("parameter_id", "int", ""),
       RField("parameter", "str", "") >>

ResponseSchema(cls) ==
    CASE cls = "LimitedTaxonomy" -> LimitedTaxonomy
      [] cls = "Value" -> Value
      [] cls = "FilterOption" -> FilterOption

\* cls(dict_) for a response model: [ok, v |-> instance], the instance being
\* [t |-> cls, data |-> field name -> converted value]; not ok stands for the
\* DataError (an unknown key, an unconvertible value, here or below)
RECURSIVE ConstructModel(_, _)
ConstructModel(cls, dict_) ==
    IF dict_.t # "dict" THEN [ok |-> FALSE]
    ELSE
    LET fields == ResponseSchema(cls)
        names == {fields[i].name : i \in 1..Len(fields)}
        field(n) == fields[CHOOSE i \in 1..Len(fields) : fields[i].name = n]
        rogue == DictKeys(dict_) \ {Chars[n] : n \in names}
        given(n) == DictGet(dict_, Chars[n], PyNone)
        models(n) == [i \in 1..Len(given(n).l) |-> ConstructModel(field(n).of, given(n).l[i])]
        conv(n) ==
            IF field(n).type # "list" THEN Convert(field(n).type, given(n))
            ELSE IF given(n).t = "none" THEN [ok |-> TRUE, v |-> PyNone]
            ELSE IF given(n).t # "list" THEN [ok |-> FALSE]
            ELSE IF \E i \in 1..Len(given(n).l) : ~models(n)[i].ok THEN [ok |-> FALSE]
            ELSE [ok |-> TRUE, v |-> PyList([i \in 1..Len(given(n).l) |-> models(n)[i].v])]
    IN  IF rogue # {} \/ \E n \in names : ~conv(n).ok
        THEN [ok |-> FALSE]
        ELSE [ok |-> TRUE, v |-> [t |-> cls, data |-> [n \in names |-> conv(n).v]]]

\* KeywordSearchResult.__init__(self, result): _result is the caller's
\* mapping itself (a reference); the two branches are converted eagerly
KeywordSearchResult(result_) ==
    LET tax == ConstructModel("LimitedTaxonomy", underscore(result_.LimitedTaxonomy))
        fos == [i \in 1..Len(result_.FilterOptions.l) |->
                    ConstructModel("FilterOption", underscore(result_.FilterOptions.l[i]))]
    IN  IF ~tax.ok \/ \E i \in 1..Len(fos) : ~fos[i].ok
        THEN [t |-> "DataError"]
        ELSE [t |-> "KeywordSearchResult",
              limited_taxonomy |-> tax.v,
              filter_options |-> [i \in 1..Len(fos) |-> fos[i].v]]

\* self._result_.get('Products', [])
ProductsOf(result_) == IF result_.hasProducts THEN result_.Products ELSE <<>>

\* a products view that keeps the first list it built
products_cached(result_, earlier, fresh) ==
    IF earlier # <<>> THEN earlier[1]
    ELSE [id |-> fresh,
          parts |-> [i \in 1..Len(ProductsOf(result_)) |->
                        [t |-> "Part", id |-> fresh + i, ref |-> ProductsOf(result_)[i]]]]

\* KeywordSearchResult.products: a new list of new Part objects, each holding
\* (a reference to) one raw item; fresh is the next unused object identity
products(result_, earlier, fresh) ==
    [id |-> fresh,
     parts |-> [i \in 1..Len(ProductsOf(result_)) |->
                    [t |-> "Part", id |-> fresh + i, ref |-> ProductsOf(result_)[i]]]]

-----------------------------------------------------------------------------
(* Result scenario: the caller builds a raw response (raw, with the product
   item dicts in the heap items), constructs a KeywordSearchResult from it,
   reads products, and may go on changing the mapping it passed in *)

MaxNodes == 3
MaxFilterOptions == 2
MaxProducts == 2
MaxViews == 2

TaxonNames == <<"Capacitors", "Film", "Ceramic", "Tantalum", "Mica", "Paper">>

Taxon(n) ==
    PyDict(<< Item(Chars["ProductCount"], PyInt(10 * n)),
              Item(Chars["NewProductCount"], PyInt(n)),
              Item(Chars["ParameterId"], PyInt(-8)),
              Item(Chars["ValueId"], PyStr(Decimal(n))),
              Item(Chars["Parameter"], PyStr("Categories")),
              Item(Chars["Value"], PyStr(TaxonNames[n])),
              Item(Chars["Children"], PyList(<<>>)) >>)

RawFilterOption(n) ==
    PyDict(<< Item(Chars["ParameterId"], PyInt(n)),
              Item(Chars["Parameter"], PyNone),
              Item(Chars["Values"],
                   PyList(<< PyDict(<< Item(Chars["ValueId"], PyStr(Decimal(n))),
                                       Item(Chars["Value"], PyStr("10 pF")) >>) >>)) >>)

RECURSIVE CountNodes(_)
CountNodes(node) ==
    LET kids == DictAt(node, Chars["Children"]).l IN
    1 + (IF kids = <<>> THEN 0
         ELSE LET RECURSIVE Sum(_)
                  Sum(i) == IF i = 0 THEN 0 ELSE CountNodes(kids[i]) + Sum(i - 1)
              IN  Sum(Len(kids)))

\* the paths (child indexes from the root) of all nodes
RECURSIVE Paths(_)
Paths(node) ==
    LET kids == DictAt(node, Chars["Children"]).l IN
    {<<>>} \cup UNION {{<<i>> \o q : q \in Paths(kids[i])} : i \in 1..Len(kids)}

\* node, with child appended to the Children list of the node at path
RECURSIVE WithChild(_, _, _)
WithChild(node, path, child) ==
    LET kids == DictAt(node, Chars["Children"]).l IN
    IF path = <<>>
    THEN DictPut(node, Chars["Children"], PyList(Append(kids, child)))
    ELSE DictPut(node, Chars["Children"],
                 PyList([kids EXCEPT ![Head(path)] = WithChild(kids[Head(path)], Tail(path), child)]))

InitResult ==
    /\ raw = [LimitedTaxonomy |-> Taxon(1), FilterOptions |-> PyList(<<>>),
              hasProducts |-> FALSE, Products |-> <<>>]
    /\ items = <<>>
    /\ ksr = Idle
    /\ views = <<>>
    /\ nextId = 1
    /\ orig = Idle /\ val = Idle /\ ops = <<>>
    /\ call = Idle /\ outcome = Idle
    /\ part = Idle /\ acc = Idle /\ result = Idle

NotResult == <<orig, val, ops, call, outcome, part, acc, result>>

\* the caller appends a taxon under some node of raw['LimitedTaxonomy']
CallerAddTaxon ==
    /\ CountNodes(raw.LimitedTaxonomy) < MaxNodes
    /\ \E path \in Paths(raw.LimitedTaxonomy) :
          raw' = [raw EXCEPT !.LimitedTaxonomy =
                    WithChild(@, path, Taxon(CountNodes(raw.LimitedTaxonomy) + 1))]
    /\ UNCHANGED <<items, ksr, views, nextId>>
    /\ UNCHANGED NotResult

\* the caller appends to raw['FilterOptions']
CallerAddFilterOption ==
    /\ Len(raw.FilterOptions.l) < MaxFilterOptions
    /\ raw' = [raw EXCEPT !.FilterOptions =
                  PyList(Append(@.l, RawFilterOption(Len(@.l) + 1)))]
    /\ UNCHANGED <<items, ksr, views, nextId>>
    /\ UNCHANGED NotResult

\* the caller appends a new item dict to raw['Products'] (creating the key)
CallerAddProduct ==
    /\ Len(items) < MaxProducts
    /\ items' = Append(items, D1("MinimumOrderQuantity", PyInt(Len(items) + 1)))
    /\ raw' = [raw EXCEPT !.hasProducts = TRUE, !.Products = Append(@, Len(items) + 1)]
    /\ UNCHANGED <<ksr, views, nextId>>
    /\ UNCHANGED NotResult

\* the caller deletes a key of an item dict it passed in
CallerChangeItem ==
    /\ \E a \in 1..Len(items) :
          /\ items[a] # PyDict(<<>>)
          /\ items' = [items EXCEPT ![a] = PyDict(<<>>)]
    /\ UNCHANGED <<raw, ksr, views, nextId>>
    /\ UNCHANGED NotResult

\* ksr = KeywordSearchResult(raw)
Construct_ksr ==
    /\ ksr = Idle
    /\ ksr' = KeywordSearchResult(raw)
    /\ UNCHANGED <<raw, items, views, nextId>>
    /\ UNCHANGED NotResult

\* ksr.products
AccessProducts ==
    /\ ksr.t = "KeywordSearchResult"
    /\ Len(views) < MaxViews
    /\ LET view == products(raw, views, nextId) IN
          /\ views' = Append(views, view)
          /\ nextId' = nextId + 1 + Len(view.parts)
    /\ UNCHANGED <<raw, items, ksr>>
    /\ UNCHANGED NotResult

NextResult ==
    \/ CallerAddTaxon
    \/ CallerAddFilterOption
    \/ CallerAddProduct
    \/ CallerChangeItem
    \/ Construct_ksr
    \/ AccessProducts

SpecResult == InitResult /\ [][NextResult]_vars

-----------------------------------------------------------------------------
(* Result claims *)

\* a LimitedTaxonomy instance mirrors a raw node: the six values under the
\* snake-case names equal the raw ones under the wire names, and the
\* children mirror the raw Children one by one, in order
RECURSIVE TreeMatches(_, _)
TreeMatches(node, rawNode) ==
    LET kids == node.data["children"]
        rawKids == DictAt(rawNode, Chars["Children"]).l
    IN  /\ node.t = "LimitedTaxonomy"
        /\ node.data["product_count"] = DictAt(rawNode, Chars["ProductCount"])
        /\ node.data["new_product_count"] = DictAt(rawNode, Chars["NewProductCount"])
        /\ node.data["parameter_id"] = DictAt(rawNode, Chars["ParameterId"])
        /\ node.data["value_id"] = DictAt(rawNode, Chars["ValueId"])
        /\ node.data["parameter"] = DictAt(rawNode, Chars["Parameter"])
        /\ node.data["value"] = DictAt(rawNode, Chars["Value"])
        /\ kids.t = "list"
        /\ Len(kids.l) = Len(rawKids)
        /\ \A i \in 1..Len(rawKids) : TreeMatches(kids.l[i], rawKids[i])

FilterOptionMatches(fo, rawFo) ==
    /\ fo.t = "FilterOption"
    /\ fo.data["parameter_id"] = DictAt(rawFo, Chars["ParameterId"])
    /\ fo.data["parameter"] = DictAt(rawFo, Chars["Parameter"])
    /\ Len(fo.data["values"].l) = Len(DictAt(rawFo, Chars["Values"]).l)

RECURSIVE Depth(_)
Depth(node) ==
    LET kids == node.data["children"].l IN
    IF kids = <<>> THEN 1
    ELSE 1 + Depth(kids[CHOOSE i \in 1..Len(kids) : \A j \in 1..Len(kids) : Depth(kids[j]) <= Depth(kids[i])])

(* C5: constructing a KeywordSearchResult builds a taxonomy tree of the same
   shape as the raw LimitedTaxonomy branch, with every node's six values
   equal to the raw ones (only the key casing differs), and one FilterOption
   per raw FilterOptions entry, in order. *)
ConstructionMirrorsRaw ==
    [][(ksr = Idle /\ ksr' # Idle) =>
          /\ ksr'.t = "KeywordSearchResult"
          /\ TreeMatches(ksr'.limited_taxonomy, raw.LimitedTaxonomy)
          /\ Len(ksr'.filter_options) = Len(raw.FilterOptions.l)
          /\ \A i \in 1..Len(raw.FilterOptions.l) :
                FilterOptionMatches(ksr'.filter_options[i], raw.FilterOptions.l[i])]_vars

\* a result whose tree has a root, a child and a grandchild, and two filter options
ConstructionWitness ==
    /\ ksr.t = "KeywordSearchResult"
    /\ Depth(ksr.limited_taxonomy) = 3
    /\ ksr.limited_taxonomy.data["children"].l[1].data["children"].l[1].data["value"] = PyStr("Ceramic")
    /\ Len(ksr.filter_options) = 2

PartIds(view) == {view.parts[i].id : i \in 1..Len(view.parts)}

(* C6: every access of products returns a new sequence with one Part per
   item of the raw Products list, in order and backed by that item (empty
   when the key is absent); nothing of an earlier access is reused, and the
   access changes neither the raw response nor limited_taxonomy nor
   filter_options. *)
ProductsRecomputedOnAccess ==
    [][(Len(views') = Len(views) + 1) =>
          LET view == views'[Len(views')] IN
          /\ Len(view.parts) = (IF raw.hasProducts THEN Len(raw.Products) ELSE 0)
          /\ \A i \in 1..Len(view.parts) : view.parts[i].ref = raw.Products[i]
          /\ \A j \in 1..Len(views) :
                /\ views[j].id # view.id
                /\ PartIds(views[j]) \cap PartIds(view) = {}
          /\ raw' = raw /\ items' = items /\ ksr' = ksr]_vars

\* products was read twice over two raw items
ProductsWitness ==
    /\ Len(views) = 2
    /\ Len(views[1].parts) = 2 /\ Len(views[2].parts) = 2
    /\ views[1].id # views[2].id

\* what Part(items[ref]).moq returns
MoqAt(heap, ref) == ReadAccessor(Wrap("Part", heap[ref]), "moq")

\* what [p.moq for p in ksr.products] returns
ProductsMoq(result_, heap) ==
    [i \in 1..Len(ProductsOf(result_)) |-> MoqAt(heap, ProductsOf(result_)[i])]

(* C9: once a KeywordSearchResult or a value object has been constructed,
   what its accessors return (the products sequence included) stays the
   same after any later operation, the caller changing the raw mapping it
   passed in included. *)
ResponseObjectsNeverChange ==
    [][ksr.t = "KeywordSearchResult" =>
          /\ ksr' = ksr
          /\ ProductsMoq(raw', items') = ProductsMoq(raw, items)
          /\ \A j \in 1..Len(views) : \A i \in 1..Len(views[j].parts) :
                MoqAt(items', views[j].parts[i].ref) = MoqAt(items, views[j].parts[i].ref)]_vars

\* the eagerly built part of the result does stay the same
EagerPartNeverChanges ==
    [][ksr.t = "KeywordSearchResult" => ksr' = ksr]_vars

====
